---- MODULE Spec2Model ----
(***************************************************************************)
(* Apple TV remote control service (services/pyatv/main.py).               *)
(*                                                                         *)
(* The service keeps three process-wide tables: discovered_devices (the    *)
(* Device Registry), active_connections (the Connection Pool, guarded by   *)
(* connection_lock) and app.state.pairing_sessions.  Request handlers are  *)
(* coroutines of one event loop: a handler runs without interruption from  *)
(* one await of a provider call to the next, so every action below is one  *)
(* such run-to-suspension segment of a handler.                            *)
(***************************************************************************)
EXTENDS Naturals, FiniteSets, Sequences

\* ------------------------------------------------------------------ bounds
NumDevices == 2       \* device identifiers on the network
NumRequests == 2      \* request handlers that may be in flight together
NumConfigs == 2       \* distinct descriptors a scan may report for one device
MaxHandles == 2       \* connections the provider hands out in one run
MaxPairings == 2      \* pairing objects the provider hands out in one run
MaxCount == 2         \* the count of connect calls saturates here

DeviceIds == 1..NumDevices
Requests == 1..NumRequests
Configs == 1..NumConfigs
Handles == 1..MaxHandles
Pairings == 1..MaxPairings

\* 0 stands for "no entry" in a dict, "no value" in a local and "unlocked"
None == 0

\* ------------------------------------------------------------------ state
VARIABLES
    discovered_devices,   \* [DeviceIds -> Configs \cup {None}]
    active_connections,   \* [DeviceIds -> Handles \cup {None}]
    connection_lock,      \* the request holding the lock, or None
    lock_waiters,         \* FIFO of the requests waiting for the lock
    pairing_sessions,     \* [DeviceIds -> Pairings \cup {None}]
    atv_device,           \* handle -> the device it was connected to (None: not created)
    atv_alive,            \* the handles whose device_info probe succeeds
    atv_closed,           \* handle -> number of close() calls on it
    next_pairing,         \* the next pairing object pyatv.pair will hand out
    req,                  \* request -> the handler's position, locals and response
    win_connects,         \* device -> pyatv.connect calls for it since its last
                          \*   disconnect / close_all / failed probe (its "window")
    win_handles,          \* device -> the connections made for it in its window
    ever_scanned          \* the devices some scan has reported so far

vars == <<discovered_devices, active_connections, connection_lock, lock_waiters,
          pairing_sessions, atv_device, atv_alive, atv_closed, next_pairing, req,
          win_connects, win_handles, ever_scanned>>

\* ------------------------------------------------------------------ responses
HTTPException(status_code, detail) == <<status_code, detail>>

Ok == <<200, "ok">>
NoResponse == <<0, "pending">>
DeviceNotFound == HTTPException(404, "not found")
ConnectionError == HTTPException(500, "Failed to connect")
ScanError == HTTPException(500, "Scan failed")
InternalError == HTTPException(500, "Internal Server Error")
UnknownCommand == HTTPException(400, "Unknown command")
CommandUnsupported == HTTPException(400, "not supported by this Apple TV")
CommandFailed == HTTPException(500, "Command failed")
NoActiveSession == HTTPException(400, "No active pairing session")
PairingStartError == HTTPException(500, "Pairing failed (start)")
PairingIncomplete == HTTPException(400, "Pairing not completed")
PairingFinishError == HTTPException(500, "Pairing failed")
NowPlayingFailed == HTTPException(500, "Failed to get now playing")

\* ------------------------------------------------------------------ helpers
Keys(d) == {k \in DOMAIN d : d[k] # None}

Count(n) == IF n < MaxCount THEN n + 1 ELSE MaxCount

\* what pyatv.scan may return: each device unseen (None) or seen with a descriptor
ScanResults == [DeviceIds -> Configs \cup {None}]

IdleReq == [op |-> "none", dev |-> None, cmd |-> "none", pc |-> "idle",
            config |-> None, pairing |-> None, stale |-> None, has_paired |-> "unknown",
            devices |-> [d \in DeviceIds |-> None],
            playing |-> "none", app_feature |-> "unknown", app |-> "none",
            close_raised |-> FALSE,
            snapshot |-> [playback |-> "absent", device_state |-> "unknown", app |-> "absent"],
            response |-> NoResponse, ret |-> None]

Free(r) == req[r].pc \in {"idle", "done"}

\* the handler returns: its locals are gone, its response stays until the next call
Done(r, response, ret) ==
    [req[r] EXCEPT !.pc = "done", !.response = response, !.ret = ret,
                   !.config = None, !.pairing = None, !.stale = None]

\* ------------------------------------------------------------------ pure parts of the handlers
\* the static catalog of send_remote_command, and the names a client may send
command_names == {"select"}
Commands == command_names \cup {"unknown_cmd"}

\* _ = atv.device_info
probe_always(atv) == TRUE
probe(atv) == atv \in atv_alive

\* for device in devices: discovered_devices[device.identifier] = device
merge_scan_replace(cache, devices) == devices
merge_scan(cache, devices) ==
    [d \in DeviceIds |-> IF devices[d] # None THEN devices[d] ELSE cache[d]]

\* discovered_devices.clear(), then the same loop
rescan_store_keep(cache, devices) == merge_scan(cache, devices)
rescan_store(cache, devices) == merge_scan([d \in DeviceIds |-> None], devices)

\* the registry after a rescan whose scan raised: the await precedes the clear()
rescan_failed_cleared(cache) == [d \in DeviceIds |-> None]
rescan_failed(cache) == cache

\* GET /devices: one DeviceInfo per entry of discovered_devices
list_devices ==
    {[id |-> d, config |-> discovered_devices[d],
      is_connected |-> active_connections[d] # None] : d \in Keys(discovered_devices)}

\* the DeviceInfo list a scan result stands for
DeviceInfos(devices, pool) ==
    {[id |-> d, config |-> devices[d],
      is_connected |-> pool[d] # None] : d \in Keys(devices)}

\* what rescan_devices does to active_connections: it only reads it (is_connected)
rescan_pool_prune(pool, devices) == [d \in DeviceIds |-> IF devices[d] = None THEN None ELSE pool[d]]
rescan_pool(pool, devices) == pool

\* atv.close(): the call is counted whether or not it raises
close_noop(closed, atvs) == closed
close(closed, atvs) == [h \in Handles |-> IF h \in atvs THEN closed[h] + 1 ELSE closed[h]]

\* the lowest handle / pairing object not handed out yet
NewHandle == CHOOSE h \in Handles : atv_device[h] = None /\ \A g \in 1..(h - 1) : atv_device[g] # None

\* the body of close_all_connections for a pool and the set of handles whose close raises:
\* the handles close was called on, the pool left behind and the error that escapes
close_all_abort(pool, raising) ==
    LET first == IF \E d \in Keys(pool) : pool[d] \in raising
                 THEN CHOOSE d \in Keys(pool) : pool[d] \in raising /\
                          \A e \in Keys(pool) : pool[e] \in raising => d <= e
                 ELSE None
    IN  IF first = None
        THEN [closed |-> {pool[d] : d \in Keys(pool)},
              pool |-> [d \in DeviceIds |-> None], raised |-> FALSE]
        ELSE [closed |-> {pool[d] : d \in {e \in Keys(pool) : e <= first}},
              pool |-> pool, raised |-> TRUE]
close_all(pool, raising) ==
    [closed |-> {pool[d] : d \in Keys(pool)},
     pool |-> [d \in DeviceIds |-> None], raised |-> FALSE]

\* except Exception as e: raise HTTPException(500, "Pairing failed: ...") in finish_pairing
finish_except(e) == PairingFinishError

\* ------------------------------------------------------------------ the lock
\* async with connection_lock: asyncio.Lock wakes its waiters in FIFO order
MayEnter_unlocked(r) ==
    /\ req[r].pc = "lock"
    /\ lock_waiters # <<>>
    /\ Head(lock_waiters) = r
MayEnter(r) ==
    /\ req[r].pc = "lock"
    /\ connection_lock = None
    /\ lock_waiters # <<>>
    /\ Head(lock_waiters) = r

\* the lock's holder once the with-block is left by a return or by the
\* exception behind the response
lock_exit_leak(holder, response) == IF response = DeviceNotFound THEN holder ELSE None
lock_exit(holder, response) == None

\* ------------------------------------------------------------------ Init
Init ==
    /\ discovered_devices \in ScanResults   \* lifespan: the startup scan, empty when it failed
    /\ ever_scanned = Keys(discovered_devices)
    /\ active_connections = [d \in DeviceIds |-> None]
    /\ connection_lock = None
    /\ lock_waiters = <<>>
    /\ pairing_sessions = [d \in DeviceIds |-> None]
    /\ atv_device = [h \in Handles |-> None]
    /\ atv_alive = {}
    /\ atv_closed = [h \in Handles |-> 0]
    /\ next_pairing = 1
    /\ req = [r \in Requests |-> IdleReq]
    /\ win_connects = [d \in DeviceIds |-> 0]
    /\ win_handles = [d \in DeviceIds |-> {}]

\* ------------------------------------------------------------------ Connection Pool
\* A handler reaches connection_lock: it queues for it, and holds it from its
\* turn (Acquire*, Disconnect, CloseAll) until the with-block is left.
Queue(r, op, d, c) ==
    /\ Free(r)
    /\ req' = [req EXCEPT ![r] = [IdleReq EXCEPT !.op = op, !.dev = d, !.cmd = c, !.pc = "lock"]]
    /\ lock_waiters' = Append(lock_waiters, r)
    /\ UNCHANGED <<discovered_devices, active_connections, connection_lock, pairing_sessions,
                   atv_device, atv_alive, atv_closed, next_pairing,
                   win_connects, win_handles, ever_scanned>>

\* POST /devices/{device_id}/connect
ConnectCall(r) == \E d \in DeviceIds : Queue(r, "connect", d, "none")

\* POST /devices/{device_id}/remote/{command}
SendCall(r) == \E d \in DeviceIds : \E c \in Commands : Queue(r, "send", d, c)

\* POST /devices/{device_id}/disconnect
DisconnectCall(r) == \E d \in DeviceIds : Queue(r, "disconnect", d, "none")

\* lifespan shutdown
CloseAllCall(r) == Queue(r, "close_all", None, "none")

\* GET /devices/{device_id}/now_playing
NowPlayingCall(r) == \E d \in DeviceIds : Queue(r, "now_playing", d, "none")

\* what the handler does with the connection get_or_create_connection returned:
\* connect_device answers at once, send_remote_command looks the command up
\* (supported: the remote control has a method of that name) and awaits it,
\* get_now_playing reads atv.metadata (supported: the read does not raise) and
\* awaits playing.playing()
after_acquire(r, rq, atv, supported) ==
    IF rq.op = "connect"
    THEN [rq EXCEPT !.pc = "done", !.response = Ok, !.ret = atv, !.config = None, !.stale = None]
    ELSE IF rq.op = "now_playing"
    THEN IF supported
         THEN [rq EXCEPT !.pc = "playing", !.ret = atv, !.config = None, !.stale = None]
         ELSE [rq EXCEPT !.pc = "done", !.response = NowPlayingFailed, !.ret = atv,
                         !.config = None, !.stale = None]
    ELSE IF rq.cmd \notin command_names
    THEN [rq EXCEPT !.pc = "done", !.response = UnknownCommand, !.ret = atv, !.config = None, !.stale = None]
    ELSE IF ~supported
    THEN [rq EXCEPT !.pc = "done", !.response = CommandUnsupported, !.ret = atv,
                    !.config = None, !.stale = None]
    ELSE [rq EXCEPT !.pc = "command", !.ret = atv, !.config = None, !.stale = None]

\* if device_id in active_connections
in_pool_never(pool, d) == FALSE
in_pool(pool, d) == pool[d] # None

\* if device_id not in discovered_devices: the rescan, and then the 404
needs_scan(cache, d) == cache[d] = None
not_found_never(cache, d) == FALSE
not_found(cache, d) == cache[d] = None

\* the stale entry's atv.close(): the handles close is called on
stale_close_skip(atv) == {}
stale_close(atv) == {atv}

\* del active_connections[device_id] for the stale entry
stale_delete_skip(pool, d) == pool
stale_delete(pool, d) == [pool EXCEPT ![d] = None]

\* get_or_create_connection up to its first await, entered with the lock free
AcquireEnter(r) ==
    /\ MayEnter(r)
    /\ req[r].op \in {"connect", "send", "now_playing"}
    /\ lock_waiters' = Tail(lock_waiters)
    /\ LET d == req[r].dev
           atv == active_connections[d]
           found == in_pool(active_connections, d)
           stale == found /\ ~probe(atv)
       IN  IF found /\ ~stale
           THEN \* the probe succeeded: return atv
                /\ \E supported \in BOOLEAN :
                      req' = [req EXCEPT ![r] = after_acquire(r, req[r], atv, supported)]
                /\ connection_lock' = lock_exit(r, Ok)
                /\ UNCHANGED <<active_connections, atv_closed, atv_alive,
                               win_connects, win_handles>>
           ELSE \* a stale entry is closed and deleted; then the registry is consulted
                /\ atv_closed' = IF stale THEN close(atv_closed, stale_close(atv)) ELSE atv_closed
                /\ atv_alive' = atv_alive
                /\ active_connections' = IF stale THEN stale_delete(active_connections, d)
                                         ELSE active_connections
                /\ connection_lock' = r
                /\ win_handles' = IF stale THEN [win_handles EXCEPT ![d] = {}] ELSE win_handles
                /\ IF needs_scan(discovered_devices, d)
                   THEN \* devices = await scan_apple_tvs()
                        /\ req' = [req EXCEPT ![r].pc = "scan",
                                              ![r].stale = IF stale THEN atv ELSE None]
                        /\ win_connects' = IF stale THEN [win_connects EXCEPT ![d] = 0]
                                           ELSE win_connects
                   ELSE \* atv = await pyatv.connect(config, ...)
                        /\ req' = [req EXCEPT ![r].pc = "connect",
                                              ![r].stale = IF stale THEN atv ELSE None,
                                              ![r].config = discovered_devices[d]]
                        /\ win_connects' = [win_connects EXCEPT
                                              ![d] = IF stale THEN 1 ELSE Count(@)]
    /\ UNCHANGED <<discovered_devices, pairing_sessions, atv_device,
                   next_pairing, ever_scanned>>

\* the scan awaited inside get_or_create_connection returns or raises
AcquireScanReturn(r) ==
    /\ req[r].pc = "scan"
    /\ LET d == req[r].dev IN
       \/ \* pyatv.scan raises: the exception leaves the with-block and the handler
          /\ req' = [req EXCEPT ![r] = Done(r, InternalError, None)]
          /\ connection_lock' = lock_exit(r, InternalError)
          /\ UNCHANGED <<discovered_devices, ever_scanned, win_connects>>
       \/ \E devices \in ScanResults :
          /\ discovered_devices' = merge_scan(discovered_devices, devices)
          /\ ever_scanned' = ever_scanned \cup Keys(devices)
          /\ IF not_found(discovered_devices', d)
             THEN /\ req' = [req EXCEPT ![r] = Done(r, DeviceNotFound, None)]
                  /\ connection_lock' = lock_exit(r, DeviceNotFound)
                  /\ UNCHANGED win_connects
             ELSE /\ req' = [req EXCEPT ![r].pc = "connect",
                                        ![r].config = discovered_devices'[d]]
                  /\ win_connects' = [win_connects EXCEPT ![d] = Count(@)]
                  /\ UNCHANGED connection_lock
    /\ UNCHANGED <<active_connections, lock_waiters, pairing_sessions, atv_device, atv_alive,
                   atv_closed, next_pairing, win_handles>>

\* pyatv.connect returns a connection or raises
AcquireConnectReturn(r) ==
    /\ req[r].pc = "connect"
    /\ LET d == req[r].dev IN
       \/ /\ \E h \in Handles : atv_device[h] = None
          /\ LET atv == NewHandle IN
             /\ atv_device' = [atv_device EXCEPT ![atv] = d]
             /\ atv_alive' = atv_alive \cup {atv}
             /\ active_connections' = [active_connections EXCEPT ![d] = atv]
             /\ win_handles' = [win_handles EXCEPT ![d] = @ \cup {atv}]
             /\ connection_lock' = lock_exit(r, Ok)
             /\ \E supported \in BOOLEAN :
                   req' = [req EXCEPT ![r] = after_acquire(r, req[r], atv, supported)]
       \/ /\ req' = [req EXCEPT ![r] = Done(r, ConnectionError, None)]
          /\ connection_lock' = lock_exit(r, ConnectionError)
          /\ UNCHANGED <<atv_device, atv_alive, active_connections, win_handles>>
    /\ UNCHANGED <<discovered_devices, lock_waiters, pairing_sessions, atv_closed,
                   next_pairing, win_connects, ever_scanned>>

\* await method() of send_remote_command returns or raises
CommandReturn(r) ==
    /\ req[r].pc = "command"
    /\ \E response \in {Ok, CommandFailed} :
          req' = [req EXCEPT ![r].pc = "done", ![r].response = response]
    /\ UNCHANGED <<discovered_devices, active_connections, connection_lock, lock_waiters,
                   pairing_sessions, atv_device, atv_alive, atv_closed, next_pairing,
                   win_connects, win_handles, ever_scanned>>

\* get_now_playing once playing.playing() returned (ok) or raised: the playback
\* fields are copied or the failure is logged; then the App feature is looked
\* up and, when available, playing.app() is awaited
after_playing_strict(rq, ok, available) ==
    IF ~ok
    THEN [rq EXCEPT !.pc = "done", !.response = NowPlayingFailed, !.playing = "failed"]
    ELSE [rq EXCEPT !.playing = "ok",
                    !.snapshot.playback = "populated", !.snapshot.device_state = "reported",
                    !.app_feature = IF available THEN "available" ELSE "unavailable",
                    !.pc = IF available THEN "app" ELSE "done",
                    !.response = IF available THEN NoResponse ELSE Ok]
after_playing(rq, ok, available) ==
    [rq EXCEPT !.playing = IF ok THEN "ok" ELSE "failed",
               !.snapshot.playback = IF ok THEN "populated" ELSE "absent",
               !.snapshot.device_state = IF ok THEN "reported" ELSE "unknown",
               !.app_feature = IF available THEN "available" ELSE "unavailable",
               !.pc = IF available THEN "app" ELSE "done",
               !.response = IF available THEN NoResponse ELSE Ok]

\* get_now_playing once playing.app() returned an app ("info"), returned None
\* ("empty") or raised ("failed")
after_app(rq, out) ==
    [rq EXCEPT !.app = out,
               !.snapshot.app = IF out = "info" THEN "populated" ELSE "absent",
               !.pc = "done", !.response = Ok]

\* playing.playing() returns or raises
PlayingReturn(r) ==
    /\ req[r].pc = "playing"
    /\ \E ok \in BOOLEAN : \E available \in BOOLEAN :
          req' = [req EXCEPT ![r] = after_playing(req[r], ok, available)]
    /\ UNCHANGED <<discovered_devices, active_connections, connection_lock, lock_waiters,
                   pairing_sessions, atv_device, atv_alive, atv_closed, next_pairing,
                   win_connects, win_handles, ever_scanned>>

\* playing.app() returns or raises
AppReturn(r) ==
    /\ req[r].pc = "app"
    /\ \E out \in {"info", "empty", "failed"} :
          req' = [req EXCEPT ![r] = after_app(req[r], out)]
    /\ UNCHANGED <<discovered_devices, active_connections, connection_lock, lock_waiters,
                   pairing_sessions, atv_device, atv_alive, atv_closed, next_pairing,
                   win_connects, win_handles, ever_scanned>>

\* disconnect_device's answer when the entry's close() raised or not:
\* except Exception: pass
disconnect_response_propagate(raised) == IF raised THEN InternalError ELSE Ok
disconnect_response(raised) == Ok

\* disconnect_device: the whole with-block, it awaits nothing
Disconnect(r) ==
    /\ MayEnter(r)
    /\ req[r].op = "disconnect"
    /\ lock_waiters' = Tail(lock_waiters)
    /\ connection_lock' = lock_exit(r, Ok)
    /\ LET d == req[r].dev
           atv == active_connections[d]
       IN  /\ atv_closed' = IF atv # None THEN close(atv_closed, {atv}) ELSE atv_closed
           /\ atv_alive' = atv_alive \ {atv}
           /\ active_connections' = [active_connections EXCEPT ![d] = None]
           /\ \E raised \in (IF atv # None THEN BOOLEAN ELSE {FALSE}) :
                 req' = [req EXCEPT ![r] = [Done(r, disconnect_response(raised), atv)
                                               EXCEPT !.close_raised = raised]]
           /\ win_connects' = [win_connects EXCEPT ![d] = 0]
           /\ win_handles' = [win_handles EXCEPT ![d] = {}]
    /\ UNCHANGED <<discovered_devices, pairing_sessions, atv_device,
                   next_pairing, ever_scanned>>

\* close_all_connections: the whole with-block, it awaits nothing
CloseAll(r) ==
    /\ MayEnter(r)
    /\ req[r].op = "close_all"
    /\ lock_waiters' = Tail(lock_waiters)
    /\ connection_lock' = lock_exit(r, Ok)
    /\ \E raising \in SUBSET {active_connections[d] : d \in Keys(active_connections)} :
       LET out == close_all(active_connections, raising) IN
          /\ atv_closed' = close(atv_closed, out.closed)
          /\ atv_alive' = atv_alive \ out.closed
          /\ active_connections' = out.pool
          /\ req' = [req EXCEPT ![r] = Done(r, IF out.raised THEN InternalError ELSE Ok,
                                                Cardinality(raising))]
    /\ win_connects' = [d \in DeviceIds |-> 0]
    /\ win_handles' = [d \in DeviceIds |-> {}]
    /\ UNCHANGED <<discovered_devices, pairing_sessions, atv_device,
                   next_pairing, ever_scanned>>

\* the link to a pooled device drops: from now on its probe raises
LinkDrops(h) ==
    /\ h \in atv_alive
    /\ \E d \in DeviceIds : active_connections[d] = h
    /\ atv_alive' = atv_alive \ {h}
    /\ UNCHANGED <<discovered_devices, active_connections, connection_lock, lock_waiters,
                   pairing_sessions, atv_device, atv_closed, next_pairing, req,
                   win_connects, win_handles, ever_scanned>>

\* ------------------------------------------------------------------ Device Registry
\* rescan_devices up to its await of scan_apple_tvs
RescanCall(r) ==
    /\ Free(r)
    /\ req' = [req EXCEPT ![r] = [IdleReq EXCEPT !.op = "rescan", !.pc = "rescan"]]
    /\ UNCHANGED <<discovered_devices, active_connections, connection_lock, lock_waiters,
                   pairing_sessions, atv_device, atv_alive, atv_closed, next_pairing,
                   win_connects, win_handles, ever_scanned>>

\* the scan returns (clear, refill and answer in one run) or raises (500 "Scan failed")
RescanReturn(r) ==
    /\ req[r].pc = "rescan"
    /\ \/ /\ req' = [req EXCEPT ![r] = Done(r, ScanError, None)]
          /\ discovered_devices' = rescan_failed(discovered_devices)
          /\ UNCHANGED <<ever_scanned, active_connections>>
       \/ \E devices \in ScanResults :
          /\ discovered_devices' = rescan_store(discovered_devices, devices)
          /\ ever_scanned' = ever_scanned \cup Keys(devices)
          /\ active_connections' = rescan_pool(active_connections, devices)
          /\ req' = [req EXCEPT ![r] = [Done(r, Ok, None) EXCEPT !.devices = devices]]
    /\ UNCHANGED <<connection_lock, lock_waiters, pairing_sessions,
                   atv_device, atv_alive, atv_closed, next_pairing, win_connects, win_handles>>

\* ------------------------------------------------------------------ Pairing
\* start_pairing up to its await of pyatv.pair, or its 404
StartPairingCall(r) ==
    /\ Free(r)
    /\ \E d \in DeviceIds :
          req' = [req EXCEPT ![r] =
                    IF d \notin Keys(discovered_devices)
                    THEN [IdleReq EXCEPT !.op = "start_pairing", !.dev = d, !.pc = "done",
                                         !.response = DeviceNotFound]
                    ELSE [IdleReq EXCEPT !.op = "start_pairing", !.dev = d, !.pc = "pair",
                                         !.config = discovered_devices[d]]]
    /\ UNCHANGED <<discovered_devices, active_connections, connection_lock, lock_waiters,
                   pairing_sessions, atv_device, atv_alive, atv_closed, next_pairing,
                   win_connects, win_handles, ever_scanned>>

\* pyatv.pair returns a pairing object (begin is awaited next) or raises
PairReturn(r) ==
    /\ req[r].pc = "pair"
    /\ \/ /\ next_pairing \in Pairings
          /\ req' = [req EXCEPT ![r].pc = "begin", ![r].pairing = next_pairing]
          /\ next_pairing' = next_pairing + 1
       \/ /\ req' = [req EXCEPT ![r] = Done(r, PairingStartError, None)]
          /\ UNCHANGED next_pairing
    /\ UNCHANGED <<discovered_devices, active_connections, connection_lock, lock_waiters,
                   pairing_sessions, atv_device, atv_alive, atv_closed,
                   win_connects, win_handles, ever_scanned>>

\* pairing.begin returns (the session is stored) or raises
BeginReturn(r) ==
    /\ req[r].pc = "begin"
    /\ \/ /\ pairing_sessions' = [pairing_sessions EXCEPT ![req[r].dev] = req[r].pairing]
          /\ req' = [req EXCEPT ![r] = Done(r, Ok, None)]
       \/ /\ req' = [req EXCEPT ![r] = Done(r, PairingStartError, None)]
          /\ UNCHANGED pairing_sessions
    /\ UNCHANGED <<discovered_devices, active_connections, connection_lock, lock_waiters,
                   atv_device, atv_alive, atv_closed, next_pairing,
                   win_connects, win_handles, ever_scanned>>

\* the sessions after pairing.pin or pairing.finish raised: the except branch
\* logs and raises the 500, nothing is cleaned up
finish_raised_cleanup(sessions, d) == [sessions EXCEPT ![d] = None]
finish_raised(sessions, d) == sessions

\* finish_pairing up to its await of pairing.finish: the 400 without a session,
\* pairing.pin raising, or the PIN submitted
FinishPairingCall(r) ==
    /\ Free(r)
    /\ \E d \in DeviceIds :
          IF pairing_sessions[d] = None
          THEN /\ req' = [req EXCEPT ![r] = [IdleReq EXCEPT !.op = "finish_pairing", !.dev = d,
                                                 !.pc = "done", !.response = NoActiveSession]]
               /\ UNCHANGED pairing_sessions
          ELSE \/ /\ req' = [req EXCEPT ![r] =
                               [IdleReq EXCEPT !.op = "finish_pairing", !.dev = d,
                                               !.pairing = pairing_sessions[d], !.pc = "finish"]]
                  /\ UNCHANGED pairing_sessions
               \/ /\ req' = [req EXCEPT ![r] =
                               [IdleReq EXCEPT !.op = "finish_pairing", !.dev = d,
                                               !.pairing = pairing_sessions[d], !.pc = "done",
                                               !.has_paired = "raised",
                                               !.response = finish_except("pin")]]
                  /\ pairing_sessions' = finish_raised(pairing_sessions, d)
    /\ UNCHANGED <<discovered_devices, active_connections, connection_lock, lock_waiters,
                   atv_device, atv_alive, atv_closed, next_pairing,
                   win_connects, win_handles, ever_scanned>>

\* the rest of finish_pairing once pairing.finish returned, for the provider's
\* has_paired: the sessions left behind and the response
finish_paired_keep(sessions, d, pairing, has_paired) ==
    IF has_paired
    THEN [sessions |-> sessions, response |-> Ok, credentials |-> pairing]
    ELSE [sessions |-> sessions, response |-> finish_except(PairingIncomplete),
          credentials |-> None]
finish_paired(sessions, d, pairing, has_paired) ==
    IF has_paired
    THEN IF sessions[d] = None
         THEN \* del pairing_sessions[device_id] raises KeyError
              [sessions |-> sessions, response |-> finish_except("KeyError"),
               credentials |-> None]
         ELSE [sessions |-> [sessions EXCEPT ![d] = None], response |-> Ok,
               credentials |-> pairing]
    ELSE \* raise HTTPException(400, "Pairing not completed"), caught three lines below
         [sessions |-> sessions, response |-> finish_except(PairingIncomplete),
          credentials |-> None]

\* pairing.finish returns or raises
FinishReturn(r) ==
    /\ req[r].pc = "finish"
    /\ \/ /\ req' = [req EXCEPT ![r] = [Done(r, finish_except("finish"), None)
                                            EXCEPT !.has_paired = "raised"]]
          /\ pairing_sessions' = finish_raised(pairing_sessions, req[r].dev)
       \/ \E has_paired \in BOOLEAN :
          LET out == finish_paired(pairing_sessions, req[r].dev, req[r].pairing, has_paired) IN
             /\ pairing_sessions' = out.sessions
             /\ req' = [req EXCEPT ![r] =
                         [Done(r, out.response, out.credentials) EXCEPT
                             !.has_paired = IF has_paired THEN "yes" ELSE "no"]]
    /\ UNCHANGED <<discovered_devices, active_connections, connection_lock, lock_waiters,
                   atv_device, atv_alive, atv_closed, next_pairing,
                   win_connects, win_handles, ever_scanned>>

\* ------------------------------------------------------------------ specification
Next ==
    \/ \E r \in Requests : ConnectCall(r)
    \/ \E r \in Requests : SendCall(r)
    \/ \E r \in Requests : DisconnectCall(r)
    \/ \E r \in Requests : CloseAllCall(r)
    \/ \E r \in Requests : NowPlayingCall(r)
    \/ \E r \in Requests : PlayingReturn(r)
    \/ \E r \in Requests : AppReturn(r)
    \/ \E r \in Requests : AcquireEnter(r)
    \/ \E r \in Requests : AcquireScanReturn(r)
    \/ \E r \in Requests : AcquireConnectReturn(r)
    \/ \E r \in Requests : CommandReturn(r)
    \/ \E r \in Requests : Disconnect(r)
    \/ \E r \in Requests : CloseAll(r)
    \/ \E h \in Handles : LinkDrops(h)
    \/ \E r \in Requests : RescanCall(r)
    \/ \E r \in Requests : RescanReturn(r)
    \/ \E r \in Requests : StartPairingCall(r)
    \/ \E r \in Requests : PairReturn(r)
    \/ \E r \in Requests : BeginReturn(r)
    \/ \E r \in Requests : FinishPairingCall(r)
    \/ \E r \in Requests : FinishReturn(r)

Spec == Init /\ [][Next]_vars

\* the pool and the registry alone: pairing touches neither, and a command is
\* sent after the pool is left
NextPool ==
    \/ \E r \in Requests : ConnectCall(r)
    \/ \E r \in Requests : DisconnectCall(r)
    \/ \E r \in Requests : CloseAllCall(r)
    \/ \E r \in Requests : AcquireEnter(r)
    \/ \E r \in Requests : AcquireScanReturn(r)
    \/ \E r \in Requests : AcquireConnectReturn(r)
    \/ \E r \in Requests : Disconnect(r)
    \/ \E r \in Requests : CloseAll(r)
    \/ \E h \in Handles : LinkDrops(h)
    \/ \E r \in Requests : RescanCall(r)
    \/ \E r \in Requests : RescanReturn(r)

SpecPool == Init /\ [][NextPool]_vars

\* the command dispatcher over the pool and the registry
NextSend ==
    \/ \E r \in Requests : SendCall(r)
    \/ \E r \in Requests : AcquireEnter(r)
    \/ \E r \in Requests : AcquireScanReturn(r)
    \/ \E r \in Requests : AcquireConnectReturn(r)
    \/ \E r \in Requests : CommandReturn(r)
    \/ \E h \in Handles : LinkDrops(h)
    \/ \E r \in Requests : RescanCall(r)
    \/ \E r \in Requests : RescanReturn(r)

SpecSend == Init /\ [][NextSend]_vars

\* the now-playing aggregator over the pool
NextSnapshot ==
    \/ \E r \in Requests : NowPlayingCall(r)
    \/ \E r \in Requests : AcquireEnter(r)
    \/ \E r \in Requests : AcquireScanReturn(r)
    \/ \E r \in Requests : AcquireConnectReturn(r)
    \/ \E r \in Requests : PlayingReturn(r)
    \/ \E r \in Requests : AppReturn(r)
    \/ \E h \in Handles : LinkDrops(h)

SpecSnapshot == Init /\ [][NextSnapshot]_vars

\* the handlers that take connection_lock
NextLock ==
    \/ \E r \in Requests : ConnectCall(r)
    \/ \E r \in Requests : DisconnectCall(r)
    \/ \E r \in Requests : CloseAllCall(r)
    \/ \E r \in Requests : AcquireEnter(r)
    \/ \E r \in Requests : AcquireScanReturn(r)
    \/ \E r \in Requests : AcquireConnectReturn(r)
    \/ \E r \in Requests : Disconnect(r)
    \/ \E r \in Requests : CloseAll(r)

\* asyncio resumes every handler whose awaited call has returned or raised and
\* every waiter the lock has woken
FairLock ==
    \A r \in Requests :
       /\ WF_vars(AcquireEnter(r))
       /\ WF_vars(AcquireScanReturn(r))
       /\ WF_vars(AcquireConnectReturn(r))
       /\ WF_vars(Disconnect(r))
       /\ WF_vars(CloseAll(r))

SpecLock == Init /\ [][NextLock]_vars /\ FairLock

\* pairing and the registry alone: the pool is not involved
NextPairing ==
    \/ \E r \in Requests : RescanCall(r)
    \/ \E r \in Requests : RescanReturn(r)
    \/ \E r \in Requests : StartPairingCall(r)
    \/ \E r \in Requests : PairReturn(r)
    \/ \E r \in Requests : BeginReturn(r)
    \/ \E r \in Requests : FinishPairingCall(r)
    \/ \E r \in Requests : FinishReturn(r)

SpecPairing == Init /\ [][NextPairing]_vars

\* ------------------------------------------------------------------ claims
\* the step in which get_or_create_connection hands request r a connection
AcquireReturns(r) ==
    /\ req[r].op \in {"connect", "send"}
    /\ req[r].pc \in {"lock", "connect"}
    /\ req'[r].pc \in {"done", "command"}
    /\ req'[r].ret # None

\* C1 (as stated): within a device's window (no disconnect, no close_all, no
\* failed probe) pyatv.connect is called at most once for it.
C1_ConnectCalledAtMostOnce ==
    \A d \in DeviceIds : win_connects[d] <= 1

\* C1 (amended): within a device's window at most one connection is made for it,
\* and every acquire that returns a connection returns that one; connect calls
\* that failed may have come before it.
C1_OneHandlePerWindow ==
    [][\A r \in Requests :
          AcquireReturns(r) => win_handles'[req[r].dev] = {req'[r].ret}]_vars

\* C1 witness: a second acquire got the pooled connection back, no connect call made
C1_Witness ==
    \E r, q \in Requests :
       /\ r # q
       /\ req[r].op = "connect" /\ req[r].pc = "done" /\ req[r].response = Ok
       /\ req[q].op = "connect" /\ req[q].pc = "done" /\ req[q].response = Ok
       /\ req[r].dev = req[q].dev
       /\ req[r].ret = req[q].ret
       /\ active_connections[req[r].dev] = req[r].ret
       /\ win_connects[req[r].dev] = 1
       /\ \A h \in Handles : atv_device[h] = req[r].dev => h = req[r].ret

\* the connections made and not yet closed
Live(d) == {h \in Handles : atv_device[h] = d /\ atv_closed[h] = 0}

\* C2: at most one live (connected, close not yet called) connection per device.
C2_AtMostOneLive ==
    \A d \in DeviceIds : Cardinality(Live(d)) <= 1

\* C2 witness: a device on its second connection, the first one closed
C2_Witness ==
    \E d \in DeviceIds : \E h, g \in Handles :
       /\ h # g
       /\ atv_device[h] = d /\ atv_device[g] = d
       /\ atv_closed[h] = 1 /\ atv_closed[g] = 0
       /\ active_connections[d] = g

\* C3: an acquire that finds an entry whose probe fails closes the entry's
\* connection and removes the entry, and returns a connection made afterwards
\* and stored under the device, or fails.
C3_StaleIsReplaced ==
    [][\A r \in Requests :
         LET d == req[r].dev
             atv == active_connections[d]
         IN  /\ ( /\ req[r].op \in {"connect", "send"}
                  /\ req[r].pc = "lock" /\ req'[r].pc # "lock"
                  /\ atv # None /\ atv \notin atv_alive )
                => /\ atv_closed'[atv] = atv_closed[atv] + 1
                   /\ active_connections'[d] = None
                   /\ req'[r].pc \in {"scan", "connect"}
                   /\ req'[r].stale = atv
             /\ ( /\ req[r].stale # None
                  /\ req'[r].pc \in {"done", "command"} )
                => /\ req'[r].ret # req[r].stale
                   /\ active_connections'[d] = req'[r].ret
                   /\ req'[r].ret # None => atv_device[req'[r].ret] = None
                   /\ req'[r].ret = None => req'[r].response \in
                          {DeviceNotFound, ConnectionError, InternalError}]_vars

\* C3 witness: the stale connection is closed and gone, its replacement is awaited
C3_Witness ==
    \E r \in Requests :
       /\ req[r].pc = "connect"
       /\ req[r].stale # None
       /\ atv_closed[req[r].stale] = 1
       /\ req[r].stale \notin atv_alive
       /\ active_connections[req[r].dev] = None

\* C4: when a rescan succeeds, GET /devices lists exactly what the scan
\* reported, whatever the registry held before.
C4_RescanReplaces ==
    [][\A r \in Requests :
         (req[r].pc = "rescan" /\ req'[r].pc = "done" /\ req'[r].response = Ok)
         => list_devices' = DeviceInfos(req'[r].devices, active_connections')]_vars

\* C4 witness: a rescan dropped a device that an earlier scan had reported
C4_Witness ==
    \E r \in Requests : \E d \in DeviceIds :
       /\ req[r].op = "rescan" /\ req[r].pc = "done" /\ req[r].response = Ok
       /\ d \in ever_scanned
       /\ req[r].devices[d] = None
       /\ list_devices = DeviceInfos(req[r].devices, active_connections)
       /\ \E e \in DeviceIds : req[r].devices[e] # None

\* the step in which finish_pairing resumes after pairing.finish returned
FinishResumes(r) == req[r].pc = "finish" /\ req'[r].pc = "done"

\* the step in which finish_pairing is called
FinishCalled(r) == Free(r) /\ req'[r] # req[r] /\ req'[r].op = "finish_pairing"

\* C5: a finish_pairing whose provider reports has_paired, with the session
\* started for the device still in place, returns the credentials and leaves
\* no session for the device; a finish_pairing called without a session fails
\* with "No active pairing session".
C5_FinishConsumesSession ==
    [][\A r \in Requests :
         /\ ( /\ FinishResumes(r)
              /\ req'[r].has_paired = "yes"
              /\ pairing_sessions[req[r].dev] # None )
            => /\ req'[r].response = Ok
               /\ req'[r].ret = req[r].pairing /\ req'[r].ret # None
               /\ pairing_sessions'[req[r].dev] = None
         /\ ( /\ FinishCalled(r)
              /\ pairing_sessions[req'[r].dev] = None )
            => /\ req'[r].pc = "done"
               /\ req'[r].response = NoActiveSession]_vars

\* C5 witness: one request finished the pairing, the next finish found no session
C5_Witness ==
    \E r, q \in Requests :
       /\ r # q
       /\ req[r].op = "finish_pairing" /\ req[r].pc = "done" /\ req[r].response = Ok
       /\ req[r].has_paired = "yes" /\ req[r].ret # None
       /\ req[q].op = "finish_pairing" /\ req[q].pc = "done"
       /\ req[q].dev = req[r].dev
       /\ req[q].response = NoActiveSession
       /\ pairing_sessions[req[r].dev] = None

\* C6 (as stated): a send with a command outside the catalog awaits neither a
\* scan nor a connect, gets no connection, and ends with "Unknown command".
C6_UnknownCommandBeforeConnection ==
    \A r \in Requests :
       (req[r].op = "send" /\ req[r].cmd \notin command_names)
       => /\ req[r].pc \notin {"scan", "connect"}
          /\ req[r].ret = None
          /\ req[r].pc = "done" => req[r].response = UnknownCommand

\* C7 (as stated): when pairing.finish returns and has_paired is false, the
\* call fails with "Pairing not completed" (not the 500 of a provider error)
\* and the device's session is deleted.
C7_IncompleteDeletesSession ==
    [][\A r \in Requests :
         (FinishResumes(r) /\ req'[r].has_paired = "no")
         => /\ req'[r].response = PairingIncomplete
            /\ req'[r].response # PairingFinishError
            /\ pairing_sessions'[req[r].dev] = None]_vars

\* C8: close_all_connections calls close once on every pooled connection and on
\* no other, empties the pool and raises nothing, whichever closes raise.
C8_CloseAllClosesEach ==
    [][\A r \in Requests :
         (req[r].op = "close_all" /\ req[r].pc = "lock" /\ req'[r].pc = "done")
         => /\ \A d \in DeviceIds : active_connections'[d] = None
            /\ \A h \in Handles :
                  atv_closed'[h] = IF \E d \in DeviceIds : active_connections[d] = h
                                   THEN atv_closed[h] + 1 ELSE atv_closed[h]
            /\ req'[r].response = Ok]_vars

\* C8 witness: close_all ran over two connections, a close raised, the pool is empty
C8_Witness ==
    \E r \in Requests : \E h, g \in Handles :
       /\ req[r].op = "close_all" /\ req[r].pc = "done" /\ req[r].response = Ok
       /\ req[r].ret >= 1
       /\ h # g
       /\ atv_device[h] # None /\ atv_device[g] # None /\ atv_device[h] # atv_device[g]
       /\ atv_closed[h] = 1 /\ atv_closed[g] = 1
       /\ \A d \in DeviceIds : active_connections[d] = None

\* C9 (as stated): the pool's keys are always keys of the registry.
C9_PoolWithinRegistry ==
    Keys(active_connections) \subseteq Keys(discovered_devices)

\* C9 (amended): the pool's keys are always devices that some scan has reported,
\* and a connect is only awaited with a descriptor read from the registry; the
\* registry itself may have lost the device to a later rescan.
C9_PoolWithinScanned ==
    /\ Keys(active_connections) \subseteq ever_scanned
    /\ \A r \in Requests :
          req[r].pc = "connect" => (req[r].config # None /\ req[r].dev \in ever_scanned)

\* C9 witness: a pooled device that the registry no longer knows
C9_Witness ==
    \E d \in DeviceIds :
       /\ active_connections[d] # None
       /\ discovered_devices[d] = None
       /\ d \in ever_scanned

\* C10: rescan_devices changes no pool entry and closes no connection, also
\* for devices its scan did not see.
C10_RescanLeavesPool ==
    [][\A r \in Requests :
         (req[r].pc = "rescan" \/ req'[r].pc = "rescan")
         /\ req'[r] # req[r]
         => /\ active_connections' = active_connections
            /\ atv_closed' = atv_closed
            /\ atv_alive' = atv_alive]_vars

\* C10 witness: a rescan that lost a device whose connection is still pooled
C10_Witness ==
    \E r \in Requests : \E d \in DeviceIds :
       /\ req[r].op = "rescan" /\ req[r].pc = "done" /\ req[r].response = Ok
       /\ req[r].devices[d] = None
       /\ discovered_devices[d] = None
       /\ active_connections[d] # None
       /\ atv_closed[active_connections[d]] = 0

\* the requests suspended inside the with-block of get_or_create_connection
InSection == {r \in Requests : req[r].pc \in {"scan", "connect"}}

\* C11: at most one request is suspended in a scan or a connect of
\* get_or_create_connection, it holds connection_lock, and while the lock is
\* held no other request enters a with-block and nothing but the holder's own
\* step changes the pool or closes a connection.
C11_SectionIsExclusive ==
    [][/\ Cardinality(InSection') <= 1
       /\ \A r \in InSection' : connection_lock' = r
       /\ connection_lock # None
          => /\ \A q \in Requests :
                  q # connection_lock => ~(req[q].pc = "lock" /\ req'[q].pc # "lock")
             /\ req'[connection_lock] = req[connection_lock]
                  => /\ active_connections' = active_connections
                     /\ atv_closed' = atv_closed
                     /\ connection_lock' = connection_lock]_vars

\* C11 witness: one request awaits its connect while another waits for the
\* lock for a different device
C11_Witness ==
    \E r, q \in Requests :
       /\ req[r].pc = "connect" /\ connection_lock = r
       /\ req[q].pc = "lock" /\ req[q].dev # req[r].dev
       /\ req[q].op \in {"connect", "disconnect"}
       /\ Head(lock_waiters) = q

\* C12: get_now_playing on an acquired connection asks for the playback state
\* and for the app separately: a query that raises leaves its own fields at
\* their defaults and the other query's fields as that query set them, the
\* call still answers with the snapshot, and playing.app() is awaited only
\* when the App feature is available.
C12_SnapshotDegrades ==
    [][\A r \in Requests :
         /\ (req[r].pc = "playing" /\ req'[r].pc # "playing")
            => /\ req'[r].pc \in {"app", "done"}
               /\ req'[r].pc = "done" => req'[r].response = Ok
               /\ req'[r].playing = "failed"
                    => (req'[r].snapshot.playback = "absent"
                        /\ req'[r].snapshot.device_state = "unknown")
               /\ req'[r].playing = "ok" => req'[r].snapshot.playback = "populated"
               /\ req'[r].pc = "app" <=> req'[r].app_feature = "available"
               /\ req'[r].snapshot.app = "absent"
         /\ (req[r].pc = "app" /\ req'[r].pc # "app")
            => /\ req'[r].pc = "done" /\ req'[r].response = Ok
               /\ req'[r].snapshot.playback = req[r].snapshot.playback
               /\ req'[r].app = "failed" => req'[r].snapshot.app = "absent"
               /\ req'[r].app = "info" => req'[r].snapshot.app = "populated"]_vars

\* C12 witness: the playback query succeeded, the app query raised, and the
\* snapshot came back with the playback fields only
C12_Witness ==
    \E r \in Requests :
       /\ req[r].op = "now_playing" /\ req[r].pc = "done" /\ req[r].response = Ok
       /\ req[r].playing = "ok" /\ req[r].app = "failed"
       /\ req[r].snapshot.playback = "populated"
       /\ req[r].snapshot.app = "absent"

\* C13: disconnect_device for an id without a pool entry answers success and
\* changes neither the pool nor the registry and calls no close; for an id
\* with an entry it calls close on the handle, removes that entry alone and
\* answers success, also when close raised.
C13_DisconnectEffect ==
    [][\A r \in Requests :
         (req[r].op = "disconnect" /\ req[r].pc = "lock" /\ req'[r].pc = "done")
         => LET d == req[r].dev
                atv == active_connections[d]
            IN  /\ req'[r].response = Ok
                /\ discovered_devices' = discovered_devices
                /\ IF atv = None
                   THEN /\ active_connections' = active_connections
                        /\ atv_closed' = atv_closed
                   ELSE /\ active_connections' = [active_connections EXCEPT ![d] = None]
                        /\ atv_closed' = [atv_closed EXCEPT ![atv] = @ + 1]]_vars

\* C13 witness: a disconnect whose close raised has answered success
C13_Witness ==
    \E r \in Requests :
       /\ req[r].op = "disconnect" /\ req[r].pc = "done"
       /\ req[r].close_raised /\ req[r].ret # None
       /\ req[r].response = Ok
       /\ atv_closed[req[r].ret] > 0

\* C14: when pyatv.connect raises inside get_or_create_connection the call
\* answers 500 "Failed to connect", the pool is left as it was and holds no
\* entry for the id (also when a stale entry was evicted first), and the next
\* get_or_create_connection for an id without an entry goes on to scan or
\* connect again instead of answering from the pool.
C14_FailedConnectNotCached ==
    [][\A r \in Requests :
         /\ (req[r].pc = "connect" /\ req'[r].pc = "done"
             /\ req'[r].response = ConnectionError)
            => /\ active_connections' = active_connections
               /\ active_connections'[req[r].dev] = None
         /\ (req[r].pc = "lock" /\ req[r].op = "connect" /\ req'[r].pc # "lock"
             /\ active_connections[req[r].dev] = None)
            => /\ req'[r].pc \in {"scan", "connect"}
               /\ discovered_devices[req[r].dev] # None => req'[r].pc = "connect"]_vars

\* C14 witness: a connect that followed the eviction of a stale handle has
\* failed while another device keeps its entry
C14_Witness ==
    \E r \in Requests :
       /\ req[r].op = "connect" /\ req[r].pc = "done"
       /\ req[r].response = ConnectionError
       /\ active_connections[req[r].dev] = None
       /\ \E h \in Handles : atv_device[h] = req[r].dev /\ atv_closed[h] > 0
       /\ \E e \in DeviceIds : e # req[r].dev /\ active_connections[e] # None

\* C15: get_or_create_connection awaits a scan only for an id that has no pool
\* entry and no registry entry; when that scan returns, every id the registry
\* held is still in it, no second scan follows, and if the id is still
\* missing the call answers 404 without any connect: no handle is created and
\* the pool, unchanged, holds no entry for the id.
C15_ScanMergesThenNotFound ==
    [][\A r \in Requests :
         /\ (req[r].pc = "lock" /\ req'[r].pc = "scan")
            => /\ discovered_devices[req[r].dev] = None
               /\ active_connections'[req[r].dev] = None
         /\ (req[r].pc = "scan" /\ req'[r].pc # "scan")
            => /\ Keys(discovered_devices) \subseteq Keys(discovered_devices')
               /\ req'[r].pc \in {"connect", "done"}
               /\ atv_device' = atv_device
               /\ active_connections' = active_connections
               /\ active_connections'[req[r].dev] = None
               /\ (req'[r].pc = "done" /\ req'[r].response # InternalError)
                  => /\ req'[r].response = DeviceNotFound
                     /\ discovered_devices'[req[r].dev] = None
               /\ req'[r].pc = "connect" => discovered_devices'[req[r].dev] # None]_vars

\* C15 witness: an acquire answered 404 after its scan, with another device
\* kept in the registry and no pool entry for the id
C15_Witness ==
    \E r \in Requests :
       /\ req[r].op = "connect" /\ req[r].pc = "done"
       /\ req[r].response = DeviceNotFound
       /\ discovered_devices[req[r].dev] = None
       /\ Keys(discovered_devices) # {}
       /\ active_connections[req[r].dev] = None

\* C16: a connection never outlives its pool entry: whenever a handle stops
\* being the pool's value for its device (stale eviction, disconnect,
\* close_all) close is called on it in that same step, so every handle that
\* was connected and never closed is the pool's current value for its device.
C16_NoHandleOutlivesEntry ==
    [][/\ \A h \in Handles :
            (atv_device[h] # None /\ active_connections[atv_device[h]] = h
             /\ active_connections'[atv_device[h]] # h)
            => atv_closed'[h] = atv_closed[h] + 1
       /\ \A h \in Handles :
            (atv_device'[h] # None /\ atv_closed'[h] = 0)
            => active_connections'[atv_device'[h]] = h]_vars

\* C16 witness: one handle was closed and removed, another is connected,
\* never closed and pooled
C16_Witness ==
    \E h, g \in Handles :
       /\ atv_device[h] # None /\ atv_closed[h] > 0
       /\ active_connections[atv_device[h]] # h
       /\ atv_device[g] # None /\ atv_closed[g] = 0
       /\ active_connections[atv_device[g]] = g

\* C17: a pairing session is deleted only by the finish_pairing that read that
\* very session and submitted its PIN to it: a session stored by a
\* start_pairing after the finish_pairing read its own is never deleted by it.
C17_FinishDeletesOwnSession ==
    [][\A d \in DeviceIds :
         (pairing_sessions[d] # None /\ pairing_sessions'[d] = None)
         => \E r \in Requests :
               /\ FinishResumes(r) /\ req[r].dev = d
               /\ req[r].pairing = pairing_sessions[d]]_vars

\* C18: rescan_devices replaces the registry in one step: the registry only
\* ever changes from one complete content to another (a successful rescan
\* stores exactly what its scan reported, the scan inside
\* get_or_create_connection only adds), so no handler sees it cleared or half
\* filled; a rescan whose scan raised answers 500 "Scan failed" and leaves the
\* registry as it was.
C18_RescanAtomic ==
    [][/\ \A r \in Requests :
            (req[r].pc = "rescan" /\ req'[r].pc = "done")
            => IF req'[r].response = Ok
               THEN discovered_devices' = req'[r].devices
               ELSE /\ req'[r].response = ScanError
                    /\ discovered_devices' = discovered_devices
       /\ discovered_devices' # discovered_devices
            => \E r \in Requests :
                  \/ /\ req[r].pc = "rescan" /\ req'[r].pc = "done"
                     /\ req'[r].response = Ok
                  \/ /\ req[r].pc = "scan" /\ req'[r].pc # "scan"
                     /\ Keys(discovered_devices) \subseteq Keys(discovered_devices')]_vars

\* C18 witness: a rescan failed over a registry that holds devices while
\* another request is waiting on a connect for one of them
C18_Witness ==
    \E r, q \in Requests :
       /\ req[r].op = "rescan" /\ req[r].pc = "done" /\ req[r].response = ScanError
       /\ req[q].pc = "connect"
       /\ discovered_devices[req[q].dev] # None

\* C19: when pairing.pin or pairing.finish raises, finish_pairing answers 500
\* "Pairing failed" and leaves the sessions as they were, so the next
\* finish_pairing for the device is not answered "No active pairing session";
\* a device's session disappears only in the step of a finish_pairing that
\* answers success, and otherwise changes only when a start_pairing stores its
\* new pairing object over it.
C19_RaisedFinishKeepsSession ==
    [][/\ \A r \in Requests :
            /\ ((FinishCalled(r) \/ FinishResumes(r)) /\ req'[r].has_paired = "raised")
               => /\ req'[r].response = PairingFinishError
                  /\ pairing_sessions' = pairing_sessions
                  /\ FinishCalled(r) => pairing_sessions'[req'[r].dev] # None
            /\ (FinishCalled(r) /\ pairing_sessions[req'[r].dev] # None)
               => req'[r].response # NoActiveSession
       /\ \A d \in DeviceIds :
            pairing_sessions'[d] # pairing_sessions[d]
            => IF pairing_sessions'[d] = None
               THEN \E r \in Requests :
                       /\ FinishResumes(r) /\ req[r].dev = d
                       /\ req'[r].response = Ok
               ELSE \E r \in Requests :
                       /\ req[r].op = "start_pairing" /\ req[r].pc = "begin"
                       /\ req[r].dev = d /\ req'[r].response = Ok
                       /\ pairing_sessions'[d] = req[r].pairing]_vars

\* C19 witness: pairing.finish raised, the session is still stored, and the
\* next finish_pairing for the device got to submit its PIN to it
C19_Witness ==
    \E r, q \in Requests :
       /\ req[r].op = "finish_pairing" /\ req[r].pc = "done"
       /\ req[r].has_paired = "raised" /\ req[r].response = PairingFinishError
       /\ req[q].op = "finish_pairing" /\ req[q].pc = "finish"
       /\ req[q].dev = req[r].dev
       /\ pairing_sessions[req[r].dev] = req[q].pairing

\* C20: connection_lock is held only by a request inside its scan or connect
\* and is free again once the with-block is left, whether by a return, the
\* 404, the failed connect or a scan that raised; given that every awaited
\* provider call returns or raises, every request queued for the lock enters
\* the with-block and completes.
C20_LockReleasedAndLive ==
    /\ [](\A r \in Requests : connection_lock = r => req[r].pc \in {"scan", "connect"})
    /\ \A r \in Requests : (req[r].pc = "lock") ~> (req[r].pc = "done")

\* C20 witness: one request left the with-block through the 404 and another
\* holds the lock after it
C20_Witness ==
    \E r, q \in Requests :
       /\ req[r].op = "connect" /\ req[r].pc = "done"
       /\ req[r].response = DeviceNotFound
       /\ connection_lock = q /\ req[q].pc = "connect"

====
